---- MODULE Spec2Model ----
(***************************************************************************)
(* Model of the IKEv2 initiator of scottk212/ike: the session object IKE   *)
(* (src/protocol.py), its two request builders init() and auth(), the      *)
(* receive function parse_packet() and the payload classes it dispatches   *)
(* to (src/ike/payloads.py).                                               *)
(*                                                                         *)
(* Byte strings are sequences of 0..255.  Fixed-width big-endian fields    *)
(* are kept as their byte strings.  The cryptographic primitives (prf,     *)
(* prfplus, HMAC, Camellia) are free constructors: two results are equal   *)
(* exactly when they were computed from equal arguments.                   *)
(***************************************************************************)
EXTENDS Integers, Sequences, FiniteSets, TLC

VARIABLES iSPI, rSPI, Ni, Nr, diffie_hellman, packets, SK, esp_SPIout,
          sent, rx, gotResponse, derivations

vars == <<iSPI, rSPI, Ni, Nr, diffie_hellman, packets, SK, esp_SPIout,
          sent, rx, gotResponse, derivations>>

\* The fields of the IKE object that parse_packet and the builders can touch.
session == <<iSPI, rSPI, Ni, Nr, diffie_hellman, packets, SK, esp_SPIout>>

-----------------------------------------------------------------------------
\* Bounds of the model.

\* nonce_len argument of IKE.__init__ (scaled down from the default of 32).
NonceLen == 2
\* Number of init()/auth() calls, i.e. the length of IKE.packets.
MaxPackets == 3
\* Number of distinct values the random SPI source can deliver.
NumSPI == 2

\* Program constants.
MACLEN == 16
IKE_HEADER_size == 28
PAYLOAD_size == 4
IV_size == 16
AUTH_MAC_SIZE == 16
IKE_VERSION == 32
IKE_SA_INIT == 34
IKE_AUTH == 35
FLAG_I == 8
T_Encrypted == 46

\* An attribute that has not been assigned yet, and one that has.
None == <<>>
Some(x) == <<x>>
Get(o) == o[1]

-----------------------------------------------------------------------------
\* Byte-string helpers.

Min(a, b) == IF a < b THEN a ELSE b

\* Python's s[a:b] for 0 <= a, 0 <= b.
PySlice(s, a, b) ==
    IF a >= Min(b, Len(s)) THEN <<>> ELSE SubSeq(s, a + 1, Min(b, Len(s)))

\* Python's s[a:] for 0 <= a.
PyFrom(s, a) == PySlice(s, a, Len(s))

\* Python's s[:-n] for n > 0.
PyDropLast(s, n) == IF Len(s) <= n THEN <<>> ELSE SubSeq(s, 1, Len(s) - n)

\* struct.pack of an unsigned big-endian field of w bytes (values below 2^24).
BE(n, w) == [i \in 1..w |-> IF w - i >= 3 THEN 0 ELSE (n \div (256 ^ (w - i))) % 256]

\* struct.unpack of a 2-byte big-endian field.
U16(s) == s[1] * 256 + s[2]

Fill(b, n) == [i \in 1..n |-> b]

RECURSIVE Concat(_)
Concat(ss) == IF ss = <<>> THEN <<>> ELSE Head(ss) \o Concat(Tail(ss))

-----------------------------------------------------------------------------
\* Primitives (util.prf, util.dh, util.cipher, hmac).

prf(key, data) == [fn |-> "prf", key |-> key, data |-> data]

\* The i-th 32-byte slice of prfplus(key, seed, 32 * 7).
prfplus_slice(key, seed, i) == [fn |-> "prf+", key |-> key, seed |-> seed, slice |-> i]

HMAC(key, msg) == [key |-> key, msg |-> msg]

\* A MODP group scaled down to p = 23, g = 5.
DH_P == 23
DH_G == 5
DH_PRIVATE == 6

RECURSIVE ModExp(_, _, _)
ModExp(b, e, m) == IF e = 0 THEN 1 % m ELSE (b * ModExp(b, e - 1, m)) % m

DiffieHellman ==
    [private_key |-> DH_PRIVATE,
     public_key |-> ModExp(DH_G, DH_PRIVATE, DH_P),
     shared_secret |-> None]

derivate(dh, peer) ==
    [dh EXCEPT !.shared_secret = Some(BE(ModExp(peer, dh.private_key, DH_P), 1))]

-----------------------------------------------------------------------------
\* Proposal encoder (proposal.Proposal) and the payload constructors.

Transform(last, type, id, keylen) ==
    LET attr == IF keylen = 0 THEN <<>> ELSE <<128, 14>> \o BE(keylen, 2)
    IN  <<IF last THEN 0 ELSE 3, 0>> \o BE(8 + Len(attr), 2)
        \o <<type, 0>> \o BE(id, 2) \o attr

ProposalData(last, num, protocol, spi, transforms) ==
    LET body == spi \o Concat(transforms)
    IN  <<IF last THEN 0 ELSE 2, 0>> \o BE(8 + Len(body), 2)
        \o <<num, protocol, Len(spi), Len(transforms)>> \o body

ENCR_CAMELLIA_CBC == 23
PRF_HMAC_SHA2_256 == 5
AUTH_HMAC_SHA2_256_128 == 12
DH_GROUP_14 == 14

\* The two default proposals of payloads.SA().
SA_proposals ==
    ProposalData(FALSE, 1, 1, <<>>,
        << Transform(FALSE, 1, ENCR_CAMELLIA_CBC, 256),
           Transform(FALSE, 2, PRF_HMAC_SHA2_256, 0),
           Transform(FALSE, 3, AUTH_HMAC_SHA2_256_128, 0),
           Transform(TRUE, 4, DH_GROUP_14, 0) >>)
    \o
    ProposalData(TRUE, 2, 3, <<>>,
        << Transform(FALSE, 1, ENCR_CAMELLIA_CBC, 256),
           Transform(FALSE, 5, 1, 0),
           Transform(TRUE, 3, AUTH_HMAC_SHA2_256_128, 0) >>)

\* A payload object: the attributes the classes of payloads.py set.
Payload(type, next, flags, length, hasData, data, kex) ==
    [_type |-> type, next_payload |-> next, flags |-> flags, length |-> length,
     hasData |-> hasData, _data |-> data, kex_data |-> kex, message_type |-> 0]

payload_header(p) == <<p.next_payload, p.flags>> \o BE(p.length, 2)

\* The encoding of a built payload: its 4-byte header and its body.
payload_data(p) == payload_header(p) \o p._data

\* IkePayload.__bytes__: header + _data; None when _data was never assigned
\* (the attribute lookup raises AttributeError).
Bytes(p) == IF p.hasData THEN Some(payload_header(p) \o p._data) ELSE None

SA_new(next) ==
    Payload(33, next, 0, PAYLOAD_size + Len(SA_proposals), TRUE, SA_proposals, <<>>)

KE_new(next, dh) ==
    LET kex == BE(dh.public_key, 1)
        body == BE(DH_GROUP_14, 2) \o <<0, 0>> \o kex
    IN  Payload(34, next, 0, PAYLOAD_size + Len(body), TRUE, body, kex)

Nonce_new(next, nonce) ==
    Payload(40, next, 0, PAYLOAD_size + Len(nonce), TRUE, nonce, <<>>)

\* Packet(): no payloads, data and header the empty str.
Packet ==
    [payloads |-> <<>>, data |-> <<>>, dataIsStr |-> TRUE, header |-> <<>>]

IKE_HEADER_pack(ispi, rspi, next, version, exchange, flags, mid, length) ==
    BE(ispi, 8) \o BE(rspi, 8) \o <<next, version, exchange, flags>>
    \o BE(mid, 4) \o BE(length, 4)

-----------------------------------------------------------------------------
\* IKE.__init__

SPIs == 1..NumSPI
NonceBytes == {170, 187}
Nonces == {Fill(b, NonceLen) : b \in NonceBytes}

Init ==
    /\ iSPI = 0
    /\ rSPI = 0
    /\ Ni \in Nonces
    /\ Nr = None
    /\ diffie_hellman = DiffieHellman
    /\ packets = <<>>
    /\ SK = None
    /\ esp_SPIout = None
    /\ sent = <<>>
    /\ rx = None
    /\ gotResponse = FALSE
    /\ derivations = 0

-----------------------------------------------------------------------------
\* IKE.init(): builds and returns the IKE_SA_INIT request.

InitPacket(spi, rspi, dh, ni) ==
    LET pls == << SA_new(34), KE_new(40, dh), Nonce_new(0, ni) >>
        data == Concat([i \in 1..3 |-> payload_data(pls[i])])
        header == IKE_HEADER_pack(spi, rspi, pls[1]._type, IKE_VERSION,
                                  IKE_SA_INIT, FLAG_I, 0,
                                  Len(data) + IKE_HEADER_size)
    IN  [payloads |-> pls, data |-> data, dataIsStr |-> FALSE, header |-> header]

Emitted(kind, header, body, plain, signed, mac) ==
    [kind |-> kind, header |-> header, body |-> body, plain |-> plain,
     signed |-> signed, mac |-> mac]

init(spi) ==
    /\ Len(packets) < MaxPackets
    /\ LET packet == InitPacket(spi, rSPI, diffie_hellman, Ni)
       IN  /\ packets' = Append(packets, packet)
           /\ iSPI' = spi
           /\ sent' = Append(sent, Emitted("init", packet.header, packet.data,
                                           None, None, None))
    /\ UNCHANGED <<rSPI, Ni, Nr, diffie_hellman, SK, esp_SPIout, rx,
                   gotResponse, derivations>>

-----------------------------------------------------------------------------
\* IKE.auth() and IKE.ike_auth(): builds and returns the IKE_AUTH request.

EMAIL == <<107, 64, 55, 55, 46, 102, 105>>
PSK == <<102, 111, 111>>
KEY_PAD == <<75, 101, 121, 32, 80, 97, 100, 32, 102, 111, 114, 32, 73, 75, 69, 118, 50>>
ESP_SPIs == {<<222, 173, 190, 239>>}
IVs == {Fill(17, IV_size)}

\* The plain IDi payload, protocol.py lines 75-77.
IDi_plain == <<39, 0>> \o BE(8 + Len(EMAIL), 2) \o <<3, 0, 0, 0>> \o EMAIL

\* "find Nr": the loop over self.packets[1].payloads.
RECURSIVE FindNr(_, _, _)
FindNr(pls, nr, dh) ==
    IF pls = <<>> THEN [Nr |-> nr, dh |-> dh]
    ELSE LET p == Head(pls)
         IN  IF p._type = 40 THEN FindNr(Tail(pls), Some(p._data), dh)
             ELSE IF p._type = 34
                  THEN FindNr(Tail(pls), nr, derivate(dh, p.kex_data[1]))
                  ELSE FindNr(Tail(pls), nr, dh)

\* unpack("32s" * 7, prfplus(SKEYSEED, Ni + Nr + iSPI + rSPI, 32 * 7))
DeriveKeys(ni, nr, spii, spir, secret) ==
    LET SKEYSEED == prf(ni \o nr, secret)
        seed == [nonces |-> ni \o nr, spii |-> spii, spir |-> spir]
    IN  [SK_d  |-> prfplus_slice(SKEYSEED, seed, 1),
         SK_ai |-> prfplus_slice(SKEYSEED, seed, 2),
         SK_ar |-> prfplus_slice(SKEYSEED, seed, 3),
         SK_ei |-> prfplus_slice(SKEYSEED, seed, 4),
         SK_er |-> prfplus_slice(SKEYSEED, seed, 5),
         SK_pi |-> prfplus_slice(SKEYSEED, seed, 6),
         SK_pr |-> prfplus_slice(SKEYSEED, seed, 7)]

\* signed = message1 + self.Nr + prf(self.SK_pi, IDi), protocol.py lines 124-126.
SignedOctets(first, nr, sk_pi) ==
    [octets |-> first.data \o nr,
     tail |-> prf(sk_pi, PyFrom(IDi_plain, PAYLOAD_size))]

\* The child proposal of ike_auth, protocol.py lines 132-133.
ChildProposal(spi) ==
    ProposalData(TRUE, 1, 3, spi,
        << Transform(FALSE, 1, ENCR_CAMELLIA_CBC, 256),
           Transform(TRUE, 3, AUTH_HMAC_SHA2_256_128, 0) >>)

TS == <<7, 0>> \o BE(16, 2) \o BE(0, 2) \o BE(0, 2) \o BE(0, 4) \o BE(0, 4)

\* The plaintext with the TSr header naming a further payload (45) after it.
Plain_open_chain(signed, espspi) ==
    LET prop == ChildProposal(espspi)
    IN  [pre |-> IDi_plain \o <<33, 0>> \o BE(8 + AUTH_MAC_SIZE, 2) \o <<2, 0, 0, 0>>,
         auth_data |-> prf(prf(PSK, KEY_PAD), signed),
         post |-> <<44, 0>> \o BE(Len(prop) + 4, 2) \o prop
                  \o <<45, 0>> \o BE(8 + Len(TS), 2) \o <<1, 0, 0, 0>> \o TS
                  \o <<45, 0>> \o BE(8 + Len(TS), 2) \o <<1, 0, 0, 0>> \o TS]

\* The plaintext of ike_auth; the AUTH data is a prf value of AUTH_MAC_SIZE bytes.
Plain(signed, espspi) ==
    LET prop == ChildProposal(espspi)
    IN  [pre |-> IDi_plain \o <<33, 0>> \o BE(8 + AUTH_MAC_SIZE, 2) \o <<2, 0, 0, 0>>,
         auth_data |-> prf(prf(PSK, KEY_PAD), signed),
         post |-> <<44, 0>> \o BE(Len(prop) + 4, 2) \o prop
                  \o <<45, 0>> \o BE(8 + Len(TS), 2) \o <<1, 0, 0, 0>> \o TS
                  \o <<0, 0>> \o BE(8 + Len(TS), 2) \o <<1, 0, 0, 0>> \o TS]

PlainLen(plain) == Len(plain.pre) + AUTH_MAC_SIZE + Len(plain.post)

\* Camellia(key, iv).encrypt(plain): CBC with padding to the next block boundary.
Encrypt(key, iv, plain) ==
    [key |-> key, iv |-> iv, plain |-> plain,
     len |-> ((PlainLen(plain) \div IV_size) + 1) * IV_size]

\* The packet with a header length that leaves the trailing MAC out.
AuthPacket_without_mac_length(spii, spir, keys, iv, plain, signed) ==
    LET ciphertext == Encrypt(keys.SK_ei, iv, plain)
        payload_len == PAYLOAD_size + Len(iv) + ciphertext.len + MACLEN
        enc_payload == <<35, 0>> \o BE(payload_len, 2) \o iv
        header == IKE_HEADER_pack(spii, spir, T_Encrypted, IKE_VERSION, IKE_AUTH,
                      FLAG_I, 1,
                      Len(enc_payload) + ciphertext.len + IKE_HEADER_size)
    IN  Emitted("auth", header, enc_payload, Some(ciphertext), Some(signed),
                Some(HMAC(keys.SK_ai, [clear |-> header \o enc_payload,
                                       ciphertext |-> ciphertext])))

\* The packet ike_auth returns, protocol.py lines 149-178.
AuthPacket(spii, spir, keys, iv, plain, signed) ==
    LET ciphertext == Encrypt(keys.SK_ei, iv, plain)
        payload_len == PAYLOAD_size + Len(iv) + ciphertext.len + MACLEN
        enc_payload == <<35, 0>> \o BE(payload_len, 2) \o iv
        header == IKE_HEADER_pack(spii, spir, T_Encrypted, IKE_VERSION, IKE_AUTH,
                      FLAG_I, 1,
                      Len(enc_payload) + ciphertext.len + IKE_HEADER_size + MACLEN)
    IN  Emitted("auth", header, enc_payload, Some(ciphertext), Some(signed),
                Some(HMAC(keys.SK_ai, [clear |-> header \o enc_payload,
                                       ciphertext |-> ciphertext])))

\* How far ike_auth gets: the exception that ends it, or "return".
AuthOutcome(pkts, nr) ==
    IF Len(pkts) < 2 THEN "IndexError"
    ELSE IF nr = None THEN "AttributeError"
    ELSE IF pkts[1].dataIsStr THEN "TypeError"
    ELSE "return"

auth ==
    /\ Len(packets) < MaxPackets
    /\ packets' = Append(packets, Packet)
    /\ LET found == IF Len(packets') < 2
                    THEN [Nr |-> Nr, dh |-> diffie_hellman]
                    ELSE FindNr(packets'[2].payloads, Nr, diffie_hellman)
           outcome == AuthOutcome(packets', found.Nr)
           derived == outcome \in {"TypeError", "return"}
           keys == DeriveKeys(Ni, Get(found.Nr), iSPI, rSPI,
                              Get(found.dh.shared_secret))
       IN  /\ Nr' = found.Nr
           /\ diffie_hellman' = found.dh
           /\ SK' = IF derived THEN Some(keys) ELSE SK
           /\ derivations' = IF derived THEN derivations + 1 ELSE derivations
           /\ IF outcome = "return"
              THEN \E espspi \in ESP_SPIs, iv \in IVs :
                     LET signed == SignedOctets(packets'[1], Get(found.Nr), keys.SK_pi)
                     IN  /\ esp_SPIout' = Some(espspi)
                         /\ sent' = Append(sent,
                                AuthPacket(iSPI, rSPI, keys, iv,
                                           Plain(signed, espspi), signed))
              ELSE UNCHANGED <<esp_SPIout, sent>>
    /\ UNCHANGED <<iSPI, rSPI, Ni, rx, gotResponse>>

-----------------------------------------------------------------------------
\* The payload classes on the receive side (payloads.py), given the buffer
\* that starts at the payload's header.  Each returns [err, p]: the exception
\* that ended the constructor ("" for none) and the payload object.

NoPayload == Payload(0, 0, 0, 0, FALSE, <<>>, <<>>)
Raise(e) == [err |-> e, p |-> NoPayload]
Built(p) == [err |-> "", p |-> p]

\* const.MessageType and const.ProtocolID: the values the enums define.
MessageTypes ==
    {1, 4, 5, 7, 9, 11, 14, 17, 24, 34, 35, 36, 37, 38, 39, 40, 41, 42, 43, 44}
    \cup (16384..16396)
ProtocolIDs == {1, 2, 3}

\* IkePayload.__init__(data=...): the header fields, then parse(data[4:]).
Generic(type, data) ==
    IF Len(data) < PAYLOAD_size THEN Raise("struct.error")
    ELSE Built(Payload(type, data[1], data[2], U16(SubSeq(data, 3, 4)),
                       TRUE, PyFrom(data, PAYLOAD_size), <<>>))

\* Proposal(data=...) as SA.parse uses it: the last flag and the length.
RECURSIVE ParseProposals(_)
ParseProposals(data) ==
    IF Len(data) < 8 THEN "struct.error"
    ELSE IF data[1] = 0 THEN ""
    ELSE IF U16(SubSeq(data, 3, 4)) = 0 THEN "nontermination"
    ELSE ParseProposals(PyFrom(data, U16(SubSeq(data, 3, 4))))

SA_parse(data) ==
    LET g == Generic(33, data)
        first == ParseProposals(PyFrom(data, PAYLOAD_size))
        second == ParseProposals(data)
    IN  IF g.err # "" THEN g
        ELSE IF first # "" THEN Raise(first)
        ELSE IF second # "" THEN Raise(second)
        ELSE Built([g.p EXCEPT !.hasData = FALSE, !._data = <<>>])

\* KE.parse runs on data[4:] (from IkePayload.__init__) and then on data.
KE_parse(data) ==
    LET g == Generic(34, data)
    IN  IF g.err # "" THEN g
        ELSE IF Len(PySlice(PyFrom(data, PAYLOAD_size), 4, 8)) < 4
             THEN Raise("struct.error")
        ELSE Built([g.p EXCEPT !.hasData = FALSE, !._data = <<>>,
                               !.kex_data = PySlice(data, PAYLOAD_size + 4, g.p.length)])

\* Nonce.parse runs on data[4:] and then on data.
Nonce_parse(data) ==
    LET g == Generic(40, data)
    IN  IF g.err # "" THEN g
        ELSE Built([g.p EXCEPT !._data = PySlice(data, PAYLOAD_size, g.p.length)])

\* Notify.parse runs once, on data[4:].
Notify_parse(data) ==
    LET g == Generic(41, data)
        body == PyFrom(data, PAYLOAD_size)
        protocol_id == body[1]
        message_type == U16(SubSeq(body, 3, 4))
    IN  IF g.err # "" THEN g
        ELSE IF Len(body) < 4 THEN Raise("struct.error")
        ELSE IF message_type \notin MessageTypes THEN Raise("ValueError")
        ELSE IF protocol_id # 0 /\ protocol_id \notin ProtocolIDs THEN Raise("ValueError")
        ELSE Built([g.p EXCEPT !._data = PySlice(body, 4, g.p.length),
                               !.message_type = message_type])

\* IDi.__init__ overwrites length and _data after the generic parse.
IDi_parse(data) ==
    LET g == Generic(35, data)
    IN  IF g.err # "" THEN g
        ELSE Built([g.p EXCEPT !.length = 18,
                       !._data = <<3, 0, 0, 0, 116, 101, 115, 116, 64, 55, 55, 46, 102, 105>>])

\* _TS.__init__ and AUTH.__init__ assert that data is not empty.
Asserting(type, data) ==
    IF data = <<>> THEN Raise("AssertionError") ELSE Generic(type, data)

\* payloads.BY_TYPE[next_payload](data=remainder), with the KeyError fallback
\* to IkePayload, whose __init__ looks its own class name up in Type.
ByType(type, data) ==
    CASE type = 33 -> SA_parse(data)
      [] type = 34 -> KE_parse(data)
      [] type = 35 -> IDi_parse(data)
      [] type = 36 -> Generic(36, data)
      [] type = 39 -> Asserting(39, data)
      [] type = 40 -> Nonce_parse(data)
      [] type = 41 -> Notify_parse(data)
      [] type \in {44, 45} -> Asserting(type, data)
      [] OTHER -> Raise("KeyError")

\* The while loop of parse_packet.  A payload of length 0 that names its own
\* type as next_payload repeats the same iteration for ever.
RECURSIVE Walk(_, _, _)
Walk(next_payload, remainder, acc) ==
    IF next_payload = 0 THEN [status |-> "ok", payloads |-> acc, remainder |-> remainder]
    ELSE LET r == ByType(next_payload, remainder)
         IN  IF r.err # ""
             THEN [status |-> r.err, payloads |-> acc, remainder |-> remainder]
             ELSE IF r.p.length = 0 /\ r.p.next_payload = next_payload
             THEN [status |-> "nontermination", payloads |-> acc, remainder |-> remainder]
             ELSE Walk(r.p.next_payload, PyFrom(remainder, r.p.length), Append(acc, r.p))

\* The MAC check computed with the initiator's own key SK_ai.
MacMatches_wrong_key(keys, dgram) ==
    /\ Len(dgram.raw) - IKE_HEADER_size >= MACLEN
    /\ dgram.macOf = Some(HMAC(keys.SK_ai, PyDropLast(dgram.raw, MACLEN)))

\* assert hmac_ours == hmac_theirs: the last MACLEN bytes of the datagram are
\* HMAC(SK_ar, raw_data[:-MACLEN]).
MacMatches(keys, dgram) ==
    /\ Len(dgram.raw) - IKE_HEADER_size >= MACLEN
    /\ dgram.macOf = Some(HMAC(keys.SK_ar, PyDropLast(dgram.raw, MACLEN)))

Parsed(status, header, payloads, remainder) ==
    [status |-> status,
     iSPI |-> PySlice(header, 0, 8), rSPI |-> PySlice(header, 8, 16),
     exchange_type |-> IF Len(header) < IKE_HEADER_size THEN 0 ELSE header[19],
     flags |-> IF Len(header) < IKE_HEADER_size THEN 0 ELSE header[20],
     message_id |-> PySlice(header, 20, 24), length |-> PySlice(header, 24, 28),
     payloads |-> payloads, remainder |-> remainder]

\* parse_packet(data, ike): the outcome ("ok" when a packet is returned, else
\* the exception raised) and the packet.
parse_packet(dgram, keys) ==
    LET data == dgram.raw
        header == PySlice(data, 0, IKE_HEADER_size)
        remainder == PyFrom(data, IKE_HEADER_size)
        walk(np) == LET w == Walk(np, remainder, <<>>)
                    IN  Parsed(w.status, header, w.payloads, w.remainder)
    IN  IF Len(header) < IKE_HEADER_size
        THEN Parsed("struct.error", header, <<>>, remainder)
        ELSE IF header[17] = T_Encrypted
        THEN IF Len(remainder) < PAYLOAD_size
             THEN Parsed("struct.error", header, <<>>, remainder)
             ELSE IF keys = None
             THEN Parsed("AttributeError", header, <<>>, remainder)
             ELSE IF ~MacMatches(Get(keys), dgram)
             THEN Parsed("AssertionError", header, <<>>, remainder)
             ELSE walk(remainder[1])
        ELSE walk(header[17])

-----------------------------------------------------------------------------
\* The datagrams the peer (or the network) can deliver.

RSPI == BE(9, 8)
PEER_PUBLIC == ModExp(DH_G, 15, DH_P)
NR == Fill(85, NonceLen)

Datagram(raw, macOf) == [raw |-> raw, macOf |-> macOf]

\* The header of a response (flags 0x20) from the responder RSPI.
ResponseHeader(spii, first, exchange, mid, length) ==
    BE(spii, 8) \o RSPI \o <<first, IKE_VERSION, exchange, 32>>
    \o BE(mid, 4) \o BE(length, 4)

\* An unencrypted packet: header and payload chain.
Clear(spii, exchange, first, body) ==
    Datagram(ResponseHeader(spii, first, exchange, 0, IKE_HEADER_size + Len(body))
             \o body, None)

KE_bytes(next) ==
    <<next, 0>> \o BE(9, 2) \o BE(DH_GROUP_14, 2) \o <<0, 0>>
    \o BE(PEER_PUBLIC, 1)
Nonce_bytes(next) == <<next, 0>> \o BE(PAYLOAD_size + NonceLen, 2) \o NR
Notify_bytes(next, type) == <<next, 0>> \o BE(8, 2) \o <<0, 0>> \o BE(type, 2)
Unknown_bytes(next, critical) ==
    <<next, IF critical THEN 128 ELSE 0>> \o BE(5, 2) \o <<238>>

SaInitResponse(spii) == Clear(spii, IKE_SA_INIT, 34, KE_bytes(40) \o Nonce_bytes(0))
NotifyResponse(spii, type) == Clear(spii, IKE_SA_INIT, 41, Notify_bytes(0, type))
UnknownResponse(spii, critical) ==
    Clear(spii, IKE_SA_INIT, 99,
          Unknown_bytes(34, critical) \o KE_bytes(40) \o Nonce_bytes(0))

ClearDatagrams(spii) ==
    { SaInitResponse(spii),
      NotifyResponse(spii, 14),
      NotifyResponse(spii, 16390),
      UnknownResponse(spii, TRUE),
      UnknownResponse(spii, FALSE),
      Clear(spii, IKE_SA_INIT, 40, Nonce_bytes(0)) }

\* An encrypted packet without its MAC: header, Encrypted header, IV, one block.
EncryptedBody(spii, inner) ==
    ResponseHeader(spii, T_Encrypted, IKE_AUTH, 1,
                   IKE_HEADER_size + PAYLOAD_size + 2 * IV_size + MACLEN)
    \o <<inner, 0>> \o BE(PAYLOAD_size + 2 * IV_size + MACLEN, 2)
    \o Fill(34, IV_size) \o Fill(51, IV_size)

MAC_BYTES == Fill(204, MACLEN)

\* A packet the peer MACed with key.
Sealed(key, body) == Datagram(body \o MAC_BYTES, Some(HMAC(key, body)))

InnerTypes == {0, 35}

ValidDatagrams(spii, keys) ==
    { Sealed(keys.SK_ar, EncryptedBody(spii, inner)) : inner \in InnerTypes }

\* v with bit b inverted.
FlipBit(v, b) == IF (v \div (2 ^ b)) % 2 = 1 THEN v - 2 ^ b ELSE v + 2 ^ b

\* The datagram with bit b of byte i inverted in transit: the trailing bytes
\* are still the MAC of the bytes that were sent.
Flipped(dgram, i, b) ==
    Datagram([dgram.raw EXCEPT ![i] = FlipBit(@, b)], dgram.macOf)

\* Header, IV and ciphertext of an encrypted packet (1-based positions).
FlipPositions ==
    (1..IKE_HEADER_size)
    \cup ((IKE_HEADER_size + PAYLOAD_size + 1)..(IKE_HEADER_size + PAYLOAD_size + 2 * IV_size))
FlipBits == 0..7

FlippedDatagrams(spii, keys) ==
    { Flipped(Sealed(keys.SK_ar, EncryptedBody(spii, 0)), i, b) :
        i \in FlipPositions, b \in FlipBits }

\* Packets whose trailing bytes are not the MAC under SK_ar of what precedes.
BadMacDatagrams(spii, keys) ==
    { Datagram(EncryptedBody(spii, 0) \o MAC_BYTES, None),
      Sealed(keys.SK_ai, EncryptedBody(spii, 0)),
      Datagram(EncryptedBody(spii, 35) \o MAC_BYTES,
               Some(HMAC(keys.SK_ar, EncryptedBody(spii, 0)))) }

\* An IKE_SA_INIT response that carries message-id mid.
ResponseWithId(spii, mid) ==
    Datagram(ResponseHeader(spii, 34, IKE_SA_INIT, mid,
                 IKE_HEADER_size + Len(KE_bytes(40) \o Nonce_bytes(0)))
             \o KE_bytes(40) \o Nonce_bytes(0), None)

\* A Nonce payload whose length field says declared.
Nonce_declaring(next, declared) == <<next, 0>> \o BE(declared, 2) \o NR

\* Packets whose only payload declares a length below the 4 header bytes, or
\* beyond the end of the buffer.
BadLengthDatagrams(spii) ==
    { Clear(spii, IKE_SA_INIT, 40, Nonce_declaring(0, 2)),
      Clear(spii, IKE_SA_INIT, 40, Nonce_declaring(0, 100)) }

\* An identification payload (IDi or IDr) for "k@77.fi".
ID_bytes(next) == <<next, 0>> \o BE(8 + Len(EMAIL), 2) \o <<3, 0, 0, 0>> \o EMAIL

\* A KE payload whose public value is left-padded to four bytes.
KE_padded_bytes(next) ==
    <<next, 0>> \o BE(12, 2) \o BE(DH_GROUP_14, 2) \o <<0, 0>>
    \o BE(PEER_PUBLIC, 4)

\* Packets of one payload whose length field is the length of the body.
SinglePayloadDatagrams(spii) ==
    { Clear(spii, IKE_SA_INIT, 34, KE_padded_bytes(0)),
      Clear(spii, IKE_AUTH, 36, ID_bytes(0)),
      Clear(spii, IKE_SA_INIT, 41, <<0, 0>> \o BE(PAYLOAD_size, 2)) }

\* An IDi payload for "k@77.fi" followed by a Nonce payload.
IDiNonceDatagram(spii) == Clear(spii, IKE_AUTH, 35, ID_bytes(40) \o Nonce_bytes(0))

\* A Nonce payload of declared length 0 that names Nonce as the next payload.
ZeroLengthDatagram(spii) == Clear(spii, IKE_SA_INIT, 40, <<40, 0>> \o BE(0, 2))

Datagrams ==
    ClearDatagrams(iSPI)
    \cup {ResponseWithId(iSPI, 7)}
    \cup BadLengthDatagrams(iSPI)
    \cup SinglePayloadDatagrams(iSPI)
    \cup {IDiNonceDatagram(iSPI), ZeroLengthDatagram(iSPI)}
    \cup { Datagram(PySlice(EncryptedBody(iSPI, 0), 0, IKE_HEADER_size + 2), None),
           Datagram(EncryptedBody(iSPI, 0) \o MAC_BYTES, None) }
    \cup (IF SK = None THEN {}
          ELSE ValidDatagrams(iSPI, Get(SK)) \cup FlippedDatagrams(iSPI, Get(SK))
               \cup BadMacDatagrams(iSPI, Get(SK)))

\* A packet parse_packet accepts as the peer's IKE_SA_INIT response.
IsSaInitResponse(packet) ==
    /\ packet.status = "ok"
    /\ packet.exchange_type = IKE_SA_INIT
    /\ \E i \in 1..Len(packet.payloads) : packet.payloads[i]._type = 34
    /\ \E i \in 1..Len(packet.payloads) : packet.payloads[i]._type = 40
    /\ \A i \in 1..Len(packet.payloads) :
          packet.payloads[i]._type = 41 => packet.payloads[i].message_type >= 2 ^ 14

\* The caller hands a datagram to parse_packet(data, ike) and keeps what it
\* returns.  A behaviour delivers one datagram, at any point of the session's
\* life: parse_packet assigns nothing to the session, so deliveries do not
\* influence one another.
Receive(dgram) ==
    /\ LET packet == parse_packet(dgram, SK)
       IN  /\ rx' = Some([data |-> dgram, packet |-> packet])
           /\ gotResponse' = (gotResponse \/ (packets # <<>> /\ IsSaInitResponse(packet)))
    /\ UNCHANGED <<session, sent, derivations>>

Deliver == rx = None /\ \E dgram \in Datagrams : Receive(dgram)

Next ==
    \/ \E spi \in SPIs : init(spi)
    \/ auth
    \/ Deliver

Spec == Init /\ [][Next]_vars

-----------------------------------------------------------------------------
\* Properties.

AuthPackets == { i \in 1..Len(sent) : sent[i].kind = "auth" }

\* This step returns an IKE_AUTH request to the caller.
AuthEmits == Len(sent') = Len(sent) + 1 /\ sent'[Len(sent')].kind = "auth"

\* This step is a call of parse_packet.
Delivers == rx = None /\ rx' # None

MessageId(e) == e.header[22] * 65536 + e.header[23] * 256 + e.header[24]
ResponderSPI(e) == PySlice(e.header, 8, 16)

\* C1: auth() emits an IKE_AUTH request only when init() has been called and
\* the peer's IKE_SA_INIT response has then been received.
C1_AuthOnlyAfterResponse == [][AuthEmits => gotResponse]_vars

\* C2: the message-ids of the emitted packets are strictly increasing, so no
\* two emitted packets carry the same message-id.
C2_MessageIdsIncrease ==
    \A i, j \in 1..Len(sent) : i < j => MessageId(sent[i]) < MessageId(sent[j])

\* C3: every emitted IKE_AUTH request carries a nonzero responder SPI, the one
\* of the received IKE_SA_INIT response.
C3_AuthCarriesResponderSPI ==
    \A i \in AuthPackets :
        /\ ResponderSPI(sent[i]) # BE(0, 8)
        /\ rx # None
        /\ IsSaInitResponse(Get(rx).packet)
        /\ ResponderSPI(sent[i]) = Get(rx).packet.rSPI

NoAuthCallYet == \A i \in 1..Len(packets) : ~packets[i].dataIsStr

PayloadsOfType(packet, type) ==
    SelectSeq(packet.payloads, LAMBDA p : p._type = type)

\* C4: once parse_packet has processed the IKE_SA_INIT response, and before
\* auth() is called, the session holds the response's responder SPI, its
\* nonce as Nr and the DH secret computed from its KE payload.
C4_ResponseStoredInSession ==
    (gotResponse /\ NoAuthCallYet) =>
        LET packet == Get(rx).packet
        IN  /\ BE(rSPI, 8) = packet.rSPI
            /\ Nr = Some(PayloadsOfType(packet, 40)[1]._data)
            /\ diffie_hellman =
                   derivate(DiffieHellman, PayloadsOfType(packet, 34)[1].kex_data[1])

\* C5: the seven keys are derived exactly once, only after the peer's nonce
\* and KE value are known, and are never assigned again.
C5_KeysDerivedOnce ==
    [][ /\ (derivations' # derivations => (derivations = 0 /\ gotResponse))
        /\ (SK # None => SK' = SK) ]_vars

\* The datagram differs in exactly one bit, at one of the given positions,
\* from the bytes its trailing MAC was computed over with SK_ar.
OneBitFromValid(dgram, keys, positions) ==
    /\ dgram.macOf # None
    /\ Get(dgram.macOf).key = keys.SK_ar
    /\ Len(Get(dgram.macOf).msg) = Len(dgram.raw) - MACLEN
    /\ \E i \in positions, b \in 0..7 :
          i <= Len(dgram.raw) - MACLEN
          /\ PyDropLast(dgram.raw, MACLEN) = [Get(dgram.macOf).msg EXCEPT ![i] = FlipBit(@, b)]

\* C6: an encrypted packet one bit away (in header, IV or ciphertext) from a
\* validly MACed packet is rejected with an integrity-check failure.
C6_BitFlipRejected ==
    [][ (Delivers /\ SK # None
         /\ OneBitFromValid(Get(rx').data, Get(SK), FlipPositions))
        => Get(rx').packet.status = "AssertionError" ]_vars

\* The trailing MACLEN bytes are not the MAC under SK_ar of what precedes them.
BadMac(dgram, keys) ==
    dgram.macOf # Some(HMAC(keys.SK_ar, PyDropLast(dgram.raw, MACLEN)))

Rejected(packet) == packet.status = "AssertionError" /\ packet.payloads = <<>>

\* C7 as stated: every packet with first-payload 46 and a wrong MAC fails the
\* integrity check, yields no packet and leaves the session unchanged.
C7_BadMacRejected ==
    [][ (Delivers /\ SK # None
         /\ Len(Get(rx').data.raw) >= IKE_HEADER_size
         /\ Get(rx').data.raw[17] = T_Encrypted
         /\ BadMac(Get(rx').data, Get(SK)))
        => (Rejected(Get(rx').packet) /\ UNCHANGED session) ]_vars

\* C7 amended: the same, for packets that hold the whole 4-byte header of the
\* Encrypted payload.
C7_CompleteBadMacRejected ==
    [][ (Delivers /\ SK # None
         /\ Len(Get(rx').data.raw) >= IKE_HEADER_size + PAYLOAD_size
         /\ Get(rx').data.raw[17] = T_Encrypted
         /\ BadMac(Get(rx').data, Get(SK)))
        => (Rejected(Get(rx').packet) /\ UNCHANGED session) ]_vars

\* A keyed session has rejected a complete encrypted packet with a wrong MAC.
C7_Witness ==
    /\ rx # None
    /\ SK # None
    /\ Len(Get(rx).data.raw) >= IKE_HEADER_size + PAYLOAD_size + IV_size + MACLEN
    /\ Get(rx).data.raw[17] = T_Encrypted
    /\ BadMac(Get(rx).data, Get(SK))
    /\ Get(rx).packet.status = "AssertionError"

KnownTypes == {33, 34, 35, 36, 39, 40, 41, 44, 45}

\* The types of the payloads that follow the first one on the wire.
RECURSIVE TypesAfter(_, _)
TypesAfter(next, remainder) ==
    IF next = 0 \/ Len(remainder) < PAYLOAD_size THEN <<>>
    ELSE <<next>> \o TypesAfter(remainder[1], PyFrom(remainder, U16(SubSeq(remainder, 3, 4))))

\* C8: a first payload of unknown type aborts the parse when its critical bit
\* is set, and is skipped, the payloads after it being parsed, when clear.
C8_UnknownPayload ==
    (rx # None
     /\ Len(Get(rx).data.raw) >= IKE_HEADER_size + PAYLOAD_size
     /\ Get(rx).data.raw[17] \notin KnownTypes \cup {0, T_Encrypted})
    => LET raw == Get(rx).data.raw
           packet == Get(rx).packet
           body == PyFrom(raw, IKE_HEADER_size)
       IN  IF body[2] >= 128
           THEN packet.status # "ok"
           ELSE /\ packet.status = "ok"
                /\ [i \in 1..Len(packet.payloads) |-> packet.payloads[i]._type]
                     = Tail(TypesAfter(raw[17], body))

\* The datagram is an IKE_SA_INIT response whose first payload is a Notify
\* with an error message-type.
IsNotifyError(dgram) ==
    /\ Len(dgram.raw) >= IKE_HEADER_size + 2 * PAYLOAD_size
    /\ dgram.raw[17] = 41
    /\ dgram.raw[19] = IKE_SA_INIT
    /\ U16(SubSeq(dgram.raw, IKE_HEADER_size + 7, IKE_HEADER_size + 8)) < 2 ^ 14

\* C9: an error Notify received after init() makes the receive fail with
\* NotifyError, and no later auth() emits an IKE_AUTH request.
C9_NotifyErrorFails ==
    [][ /\ (Delivers /\ packets # <<>> /\ IsNotifyError(Get(rx').data))
            => Get(rx').packet.status = "NotifyError"
        /\ (rx # None /\ IsNotifyError(Get(rx).data)) => ~AuthEmits ]_vars

\* C10: the signed octets are RealMessage1 || Nr || prf(SK_pi, IDi body), with
\* RealMessage1 the whole first message init() returned, header included.
C10_SignedOctets ==
    \A i \in AuthPackets :
        Get(sent[i].signed) =
            [octets |-> sent[1].header \o sent[1].body \o Get(Nr),
             tail |-> prf(Get(SK).SK_pi, PyFrom(IDi_plain, PAYLOAD_size))]

\* The packet held by rx came without an Encrypted payload and has a body.
ClearReceived ==
    /\ rx # None
    /\ Len(Get(rx).data.raw) >= IKE_HEADER_size + PAYLOAD_size
    /\ Get(rx).data.raw[17] # T_Encrypted

Body(dgram) == PyFrom(dgram.raw, IKE_HEADER_size)

\* C11: parse_packet returns a packet only when its message-id is the one
\* of its exchange: 0 for IKE_SA_INIT, 1 for IKE_AUTH.
C11_MessageIdExpected ==
    (rx # None /\ Get(rx).packet.status = "ok")
    => LET packet == Get(rx).packet
       IN  /\ packet.exchange_type = IKE_SA_INIT => packet.message_id = BE(0, 4)
           /\ packet.exchange_type = IKE_AUTH => packet.message_id = BE(1, 4)

\* C12: a first payload that declares a length below 4, or more bytes than
\* the buffer holds, makes parse_packet abort: no packet is returned.
C12_BadLengthAborts ==
    (ClearReceived
     /\ Get(rx).data.raw[17] \in KnownTypes
     /\ LET declared == U16(SubSeq(Body(Get(rx).data), 3, 4))
        IN  declared < PAYLOAD_size \/ declared > Len(Body(Get(rx).data)))
    => Get(rx).packet.status # "ok"

\* struct.unpack of a 4-byte big-endian field.
U32(s) == ((s[1] * 256 + s[2]) * 256 + s[3]) * 256 + s[4]

\* The number of bytes of the buffer init() or auth() returned: header and
\* payload bytes, and for auth() the ciphertext and the truncated MAC.
EmittedLen(e) ==
    Len(e.header) + Len(e.body)
    + (IF e.plain = None THEN 0 ELSE Get(e.plain).len)
    + (IF e.mac = None THEN 0 ELSE MACLEN)

HeaderLength(e) == U32(PySlice(e.header, 24, 28))

\* C13: the header's length field of every emitted packet is the length of
\* the returned buffer; for auth() that is header, Encrypted header, IV,
\* ciphertext and MAC, and the Encrypted payload's length is the total less 28.
C13_HeaderLengthIsBufferLength ==
    \A i \in 1..Len(sent) :
        /\ HeaderLength(sent[i]) = EmittedLen(sent[i])
        /\ sent[i].kind = "auth" =>
             /\ EmittedLen(sent[i]) = IKE_HEADER_size + PAYLOAD_size + IV_size
                                       + Get(sent[i].plain).len + MACLEN
             /\ U16(SubSeq(sent[i].body, 3, 4)) = HeaderLength(sent[i]) - IKE_HEADER_size

\* Both kinds of request have been emitted.
C13_Witness ==
    /\ \E i \in 1..Len(sent) : sent[i].kind = "init" /\ HeaderLength(sent[i]) > IKE_HEADER_size
    /\ \E i \in AuthPackets : Get(sent[i].plain).len >= IV_size

\* The bytes of the plaintext, the AUTH data standing as AUTH_MAC_SIZE bytes
\* that are no payload header.
PlainBytes(plain) == plain.pre \o Fill(255, AUTH_MAC_SIZE) \o plain.post

\* The walk of a payload chain by its length fields: the types met, closed
\* by 0 when the chain ends exactly at the end of the buffer and by -1 when a
\* length is below 4, runs past the buffer or leaves bytes over.
RECURSIVE Chain(_, _)
Chain(next, buf) ==
    IF next = 0 THEN (IF buf = <<>> THEN <<0>> ELSE <<-1>>)
    ELSE IF Len(buf) < PAYLOAD_size THEN <<-1>>
    ELSE LET length == U16(SubSeq(buf, 3, 4))
         IN  IF length < PAYLOAD_size \/ length > Len(buf) THEN <<-1>>
             ELSE <<next>> \o Chain(buf[1], PyFrom(buf, length))

CodecTypes == {36, 34, 40, 41}

\* C15: decoding a valid single-payload buffer b (length field = len(b)) of a
\* generic, KE, Nonce or Notify payload and encoding the object gives b again.
C15_DecodeEncodeRoundTrip ==
    (ClearReceived
     /\ Get(rx).data.raw[17] \in CodecTypes
     /\ Chain(Get(rx).data.raw[17], Body(Get(rx).data)) = <<Get(rx).data.raw[17], 0>>
     /\ Len(Body(Get(rx).data)) >= 2 * PAYLOAD_size)
    => /\ Get(rx).packet.status = "ok"
       /\ Len(Get(rx).packet.payloads) = 1
       /\ Bytes(Get(rx).packet.payloads[1]) = Some(Body(Get(rx).data))

\* C16: an unencrypted packet whose body is a well-formed chain of n payloads
\* parses to exactly those n payloads, in wire order and with the announced
\* types, and nothing of the body is left over.
C16_WellFormedChainParsed ==
    (ClearReceived
     /\ LET chain == Chain(Get(rx).data.raw[17], Body(Get(rx).data))
        IN  /\ chain[Len(chain)] = 0
            /\ \A i \in 1..(Len(chain) - 1) : chain[i] \in KnownTypes)
    => LET chain == Chain(Get(rx).data.raw[17], Body(Get(rx).data))
           packet == Get(rx).packet
       IN  /\ packet.status = "ok"
           /\ Len(packet.payloads) = Len(chain) - 1
           /\ \A i \in 1..Len(packet.payloads) : packet.payloads[i]._type = chain[i]
           /\ packet.remainder = <<>>

\* C19: parse_packet terminates on every buffer, and appends no more
\* payloads than the buffer has bytes.
C19_ParseTerminates ==
    rx # None =>
        /\ Get(rx).packet.status # "nontermination"
        /\ Len(Get(rx).packet.payloads) <= Len(Get(rx).data.raw)

\* Camellia(key, iv).decrypt(ciphertext) for the one block the peer sends in
\* EncryptedBody: the peer encrypted, under the receiver's SK_er, an ID payload
\* for "k@77.fi" and one pad byte (the pad length 0).
Decrypt(key, iv, ciphertext) ==
    IF iv = Fill(34, IV_size) /\ ciphertext = Fill(51, IV_size)
    THEN ID_bytes(0) \o <<0>>
    ELSE <<>>

\* Strip the pad: the last byte's value + 1 bytes.
StripPad(plain) ==
    IF plain = <<>> THEN <<>> ELSE PyDropLast(plain, plain[Len(plain)] + 1)

\* C17: for an encrypted packet whose MAC verifies, parse_packet returns the
\* payloads of the inner chain: the ciphertext decrypted under SK_er with the
\* embedded IV, pad stripped, walked from the Encrypted payload's next_payload.
C17_InnerChainReturned ==
    (rx # None /\ SK # None
     /\ Len(Get(rx).data.raw) >= IKE_HEADER_size + PAYLOAD_size + IV_size + MACLEN
     /\ Get(rx).data.raw[17] = T_Encrypted
     /\ MacMatches(Get(SK), Get(rx).data))
    => LET body == Body(Get(rx).data)
           iv == PySlice(body, PAYLOAD_size, PAYLOAD_size + IV_size)
           ciphertext == PySlice(body, PAYLOAD_size + IV_size, Len(body) - MACLEN)
           inner == Walk(body[1], StripPad(Decrypt(Get(SK).SK_er, iv, ciphertext)), <<>>)
       IN  /\ Get(rx).packet.status = "ok"
           /\ Get(rx).packet.payloads = inner.payloads

\* C18: from the return of init() on, packets[0] holds exactly the bytes of
\* the first IKE_SA_INIT request that was emitted, whatever is called later.
C18_FirstMessageRetained ==
    sent # <<>> =>
        /\ sent[1].kind = "init"
        /\ packets[1].header \o packets[1].data = sent[1].header \o sent[1].body

InitiatorSPI(header) == PySlice(header, 0, 8)

\* C20: an emitted IKE_AUTH request carries, in its header and in the seed of
\* its keys, the initiator SPI of packets[0]; and Nr and the peer's KE value
\* were taken from a packet received from the peer.
C20_AuthBoundToExchange ==
    \A i \in AuthPackets :
        /\ InitiatorSPI(sent[i].header) = InitiatorSPI(packets[1].header)
        /\ BE(Get(sent[i].mac).key.seed.spii, 8) = InitiatorSPI(packets[1].header)
        /\ rx # None
        /\ \E p \in {Get(rx).packet.payloads[k] : k \in 1..Len(Get(rx).packet.payloads)} :
              p._type = 40 /\ Nr = Some(p._data)
        /\ \E p \in {Get(rx).packet.payloads[k] : k \in 1..Len(Get(rx).packet.payloads)} :
              p._type = 34 /\ diffie_hellman = derivate(diffie_hellman, p.kex_data[1])

====
